---- MODULE Spec2Model ----
(***************************************************************************)
(* vite-content-preload: the transformIndexHtml hook of the plugin that    *)
(* autoPreload(options) builds (src/src/index.ts, lines 25-186).           *)
(*                                                                         *)
(* A JavaScript string is modelled as the sequence of its characters, each *)
(* character a one-character TLA+ string, so that endsWith, includes,      *)
(* replace and the regular expressions of the source work on characters.   *)
(* The value undefined is the one-element sequence Undefined, whose only   *)
(* element is no character.                                                *)
(***************************************************************************)
EXTENDS Integers, Sequences, FiniteSets, TLC

VARIABLES maxSizeKB, extensions, preloadAll, lastIndex, html, ctx, result, usedAssets,
          preloaded, preloadLinks

vars ==
  <<maxSizeKB, extensions, preloadAll, lastIndex, html, ctx, result, usedAssets, preloaded,
    preloadLinks>>

(***************************************************************************)
(* Strings                                                                 *)
(***************************************************************************)

\* JavaScript's undefined, where a string is expected.
Undefined == <<"<undefined>">>

\* String(undefined): what includes(), endsWith() and exec() make of undefined.
UndefinedText == <<"u", "n", "d", "e", "f", "i", "n", "e", "d">>

ToStr(s) == IF s = Undefined THEN UndefinedText ELSE s

\* String.prototype.startsWith
StartsWith(s, t) == Len(t) <= Len(s) /\ SubSeq(s, 1, Len(t)) = t

\* String.prototype.endsWith
EndsWith(s, t) == Len(t) <= Len(s) /\ SubSeq(s, Len(s) - Len(t) + 1, Len(s)) = t

\* String.prototype.indexOf, 1-based; 0 when t does not occur in s.
IndexOf(s, t) ==
  LET hits == {i \in 1..(Len(s) - Len(t) + 1) : SubSeq(s, i, i + Len(t) - 1) = t}
  IN  IF hits = {} THEN 0 ELSE CHOOSE i \in hits : \A j \in hits : i <= j

\* String.prototype.includes
Includes(s, t) == IndexOf(s, t) # 0

\* The characters after position i.
Drop(s, i) == SubSeq(s, i + 1, Len(s))

WhiteSpace == {" ", "\n", "\t"}

RECURSIVE TrimStart(_)
TrimStart(s) == IF s # <<>> /\ Head(s) \in WhiteSpace THEN TrimStart(Tail(s)) ELSE s

RECURSIVE TrimEnd(_)
TrimEnd(s) ==
  IF s # <<>> /\ s[Len(s)] \in WhiteSpace THEN TrimEnd(SubSeq(s, 1, Len(s) - 1)) ELSE s

\* String.prototype.trim
Trim(s) == TrimEnd(TrimStart(s))

\* Array.prototype.join
RECURSIVE Join(_, _)
Join(strs, sep) ==
  IF strs = <<>> THEN <<>>
  ELSE IF Len(strs) = 1 THEN strs[1]
  ELSE strs[1] \o sep \o Join(Tail(strs), sep)

\* Case folding of the /i flag, on the letters the model's paths use.
UpperToLower ==
  [c \in {"P", "N", "G", "W", "O", "F"} |->
     CASE c = "P" -> "p" [] c = "N" -> "n" [] c = "G" -> "g"
       [] c = "W" -> "w" [] c = "O" -> "o" [] c = "F" -> "f"]

LowerChar(c) == IF c \in DOMAIN UpperToLower THEN UpperToLower[c] ELSE c

ToLower(s) == [i \in 1..Len(s) |-> LowerChar(s[i])]

(***************************************************************************)
(* The build graph: ctx.bundle, a Record<string, OutputChunk | OutputAsset>, *)
(* as the sequence of its entries in Object.entries order. An entry is      *)
(* [key, file]; a file is [type, fileName, code, hasImports, imports,       *)
(* source], a field the producer left out being Undefined (hasImports       *)
(* FALSE for the import list). An asset's source is [kind, text, length]:   *)
(* a string with its text, a Buffer/Uint8Array with its length, or absent.  *)
(***************************************************************************)

NoSource == [kind |-> "undefined", text |-> <<>>, length |-> 0]

StringSource(t) == [kind |-> "string", text |-> t, length |-> Len(t)]

\* Buffer.alloc(n)
BufferSource(n) == [kind |-> "buffer", text |-> <<>>, length |-> n]

\* The truthiness of asset.source: an object is truthy, a string unless empty.
Truthy(src) == src.kind = "buffer" \/ (src.kind = "string" /\ src.text # <<>>)

Chunk(name, code, hasImports, imports) ==
  [type |-> "chunk", fileName |-> name, code |-> code, hasImports |-> hasImports,
   imports |-> imports, source |-> NoSource]

Asset(name, src) ==
  [type |-> "asset", fileName |-> name, code |-> Undefined, hasImports |-> FALSE,
   imports |-> <<>>, source |-> src]

Entry(key, file) == [key |-> key, file |-> file]

\* bundle[key]: the position of the entry with that key, 0 when there is none.
BundleAt(b, key) ==
  LET hits == {i \in 1..Len(b) : b[i].key = key}
  IN  IF hits = {} THEN 0 ELSE CHOOSE i \in hits : TRUE

\* ctx?.bundle is falsy: no context, or a context without a bundle.
NoBundle(c) == ~c.defined \/ ~c.hasBundle

(***************************************************************************)
(* Regular expressions of the source                                       *)
(***************************************************************************)

\* An extensions option /\.(alt|alt|...)$/ with or without the i flag: whether
\* the pattern matches s, searched from its start.
ExtensionsTest(re, s) ==
  LET t == IF re.ignoreCase THEN ToLower(s) ELSE s
  IN  \E a \in re.alts : EndsWith(t, <<".">> \o a)

\* extensions.test(s) on the RegExp object whose lastIndex is li: the result
\* and the lastIndex it leaves. Without the g flag lastIndex is neither read
\* nor written. With it the search starts at lastIndex: a match (the "." of
\* the suffix, at index Len(s) - Len(alt) - 1) is found only from there on and
\* sets lastIndex to its end, the end of s; a failed search sets it to 0.
RegExpTest(re, li, s) ==
  IF ~re.global THEN [ok |-> ExtensionsTest(re, s), lastIndex |-> li]
  ELSE LET t == IF re.ignoreCase THEN ToLower(s) ELSE s
           starts == {Len(t) - Len(a) - 1 : a \in {x \in re.alts : EndsWith(t, <<".">> \o x)}}
       IN  IF \E st \in starts : st >= li
           THEN [ok |-> TRUE, lastIndex |-> Len(s)]
           ELSE [ok |-> FALSE, lastIndex |-> 0]

\* name.replace(/^\.\.?\//, ''): one leading "./" or "../" is removed.
StripDotSlash(s) ==
  IF StartsWith(s, <<".", "/">>) THEN Drop(s, 2)
  ELSE IF StartsWith(s, <<".", ".", "/">>) THEN Drop(s, 3)
  ELSE s

\* assetUrl.replace(/^.*[\\/]/, ''): the text through the last slash or backslash
\* of the first line is removed ("." matches no line break).
Basename(s) ==
  LET cuts == {p \in 1..Len(s) : /\ s[p] \in {"/", "\\"}
                                 /\ \A j \in 1..(p - 1) : s[j] # "\n"}
  IN  IF cuts = {} THEN s ELSE Drop(s, CHOOSE p \in cuts : \A q \in cuts : q <= p)

Quotes == {"'", "\""}

AssetsPrefix == <<"/", "a", "s", "s", "e", "t", "s", "/">>

\* The end of the longest run of characters outside `stop` that starts at i
\* (i - 1 when the run is empty).
RunEnd(s, i, stop) ==
  LET stops == {j \in i..Len(s) : s[j] \in stop}
  IN  IF stops = {} THEN Len(s) ELSE (CHOOSE j \in stops : \A k \in stops : j <= k) - 1

\* The matches of staticUrlRegex = /\/assets\/[^"']+/g that the exec loop finds
\* in s from position `from` on, in order.
RECURSIVE StaticUrlMatches(_, _)
StaticUrlMatches(s, from) ==
  LET n    == Len(AssetsPrefix)
      hits == {i \in from..(Len(s) - n) :
                 /\ SubSeq(s, i, i + n - 1) = AssetsPrefix
                 /\ s[i + n] \notin Quotes}
  IN  IF hits = {} THEN <<>>
      ELSE LET i == CHOOSE h \in hits : \A g \in hits : h <= g
               e == RunEnd(s, i + n, Quotes)
           IN  <<SubSeq(s, i, e)>> \o StaticUrlMatches(s, e + 1)

UrlOpen == <<"u", "r", "l", "(">>

\* urlRegex = /url\((['"]?)([^'")]+)\1\)/ tried at position i: whether it
\* matches there, its group 2 and the position of its last character.
UrlMatchAt(s, i) ==
  LET k  == Len(UrlOpen)
      q  == IF i + k <= Len(s) /\ s[i + k] \in Quotes THEN <<s[i + k]>> ELSE <<>>
      b  == i + k + Len(q)
      e  == RunEnd(s, b, Quotes \cup {")"})
      cl == q \o <<")">>
  IN  IF /\ i + k - 1 <= Len(s)
         /\ SubSeq(s, i, i + k - 1) = UrlOpen
         /\ e >= b
         /\ e + Len(cl) <= Len(s)
         /\ SubSeq(s, e + 1, e + Len(cl)) = cl
      THEN [ok |-> TRUE, path |-> SubSeq(s, b, e), last |-> e + Len(cl)]
      ELSE [ok |-> FALSE, path |-> <<>>, last |-> i]

\* The group-2 texts of the matches the exec loop of urlRegex (flag g) finds in s.
RECURSIVE UrlMatches(_, _)
UrlMatches(s, from) ==
  LET hits == {i \in from..Len(s) : UrlMatchAt(s, i).ok}
  IN  IF hits = {} THEN <<>>
      ELSE LET i == CHOOSE h \in hits : \A g \in hits : h <= g
               m == UrlMatchAt(s, i)
           IN  <<m.path>> \o UrlMatches(s, m.last + 1)

(***************************************************************************)
(* transformIndexHtml, lines 50-184                                        *)
(***************************************************************************)

\* The entries of b from position i on, searched in order by the predicate of
\* findBundleAsset's find(): file.type === 'asset' && file.fileName.endsWith(n).
\* Reading .endsWith of a missing fileName throws a TypeError.
RECURSIVE FindFrom(_, _, _)
FindFrom(b, n, i) ==
  IF i > Len(b) THEN [kind |-> "undefined", at |-> 0]
  ELSE IF b[i].file.type # "asset" THEN FindFrom(b, n, i + 1)
  ELSE IF b[i].file.fileName = Undefined THEN [kind |-> "throw", at |-> i]
  ELSE IF EndsWith(b[i].file.fileName, n) THEN [kind |-> "found", at |-> i]
  ELSE FindFrom(b, n, i + 1)

\* findBundleAsset(name): the first asset of the bundle whose fileName ends
\* with the name, one leading "./" or "../" removed.
findBundleAsset(b, name) == FindFrom(b, ToStr(StripDotSlash(name)), 1)

\* Set.prototype.add on the insertion-ordered set usedAssets.
SetAdd(set, x) == IF \E i \in 1..Len(set) : set[i] = x THEN set ELSE Append(set, x)

\* A collector: the set collected so far, and whether an exception was thrown.
Collected(set) == [used |-> set, thrown |-> FALSE]

\* The collector of the lookup: usedAssets so far, whether an exception was
\* thrown, and the lastIndex of the extensions RegExp.
Lookup(set, li) == [used |-> set, thrown |-> FALSE, lastIndex |-> li]

\* A collection step that adds every asset it finds, whatever its extension.
CollectAssetOfAnyExtension(acc, b, re, name) ==
  IF acc.thrown THEN acc
  ELSE LET r == findBundleAsset(b, name)
       IN  IF r.kind = "throw" THEN [acc EXCEPT !.thrown = TRUE]
           ELSE IF r.kind = "found"
                THEN [acc EXCEPT !.used = SetAdd(@, b[r.at].file.fileName),
                                 !.lastIndex = RegExpTest(re, @, b[r.at].file.fileName).lastIndex]
           ELSE acc

\* One "const asset = findBundleAsset(name); if (asset &&
\* extensions.test(asset.fileName)) usedAssets.add(asset.fileName)".
CollectAsset(acc, b, re, name) ==
  IF acc.thrown THEN acc
  ELSE LET r == findBundleAsset(b, name)
       IN  IF r.kind = "throw" THEN [acc EXCEPT !.thrown = TRUE]
           ELSE IF r.kind = "found"
                THEN LET t == RegExpTest(re, acc.lastIndex, b[r.at].file.fileName)
                     IN  [acc EXCEPT !.used = IF t.ok THEN SetAdd(@, b[r.at].file.fileName) ELSE @,
                                     !.lastIndex = t.lastIndex]
           ELSE acc

RECURSIVE CollectAll(_, _, _, _)
CollectAll(acc, b, re, names) ==
  IF names = <<>> THEN acc
  ELSE CollectAll(CollectAsset(acc, b, re, Head(names)), b, re, Tail(names))

\* Lines 107-111 and 116-121: staticAssets is a Set of the assets the /assets/
\* matches resolve to, so an asset that several matches resolve to is tested
\* once; seen holds the positions of the assets already in the Set.
RECURSIVE CollectStatic(_, _, _, _, _)
CollectStatic(acc, b, re, names, seen) ==
  IF names = <<>> \/ acc.thrown THEN acc
  ELSE LET r == findBundleAsset(b, Head(names))
       IN  IF r.kind = "found" /\ r.at \in seen
           THEN CollectStatic(acc, b, re, Tail(names), seen)
           ELSE CollectStatic(CollectAsset(acc, b, re, Head(names)), b, re, Tail(names),
                              IF r.kind = "found" THEN seen \cup {r.at} ELSE seen)

\* Lines 75-83, preloadAll: every entry of the bundle that is an asset and whose
\* KEY matches the extensions is collected, under its key.
RECURSIVE FullScan(_, _, _, _)
FullScan(acc, b, re, i) ==
  IF i > Len(b) THEN acc
  ELSE IF b[i].file.type # "asset" THEN FullScan(acc, b, re, i + 1)
  ELSE LET t == RegExpTest(re, acc.lastIndex, b[i].key)
       IN  FullScan([acc EXCEPT !.used = IF t.ok THEN SetAdd(@, b[i].key) ELSE @,
                                !.lastIndex = t.lastIndex],
                    b, re, i + 1)

\* A filter that takes every chunk and every stylesheet for initial.
IsInitialWhateverTheDocument(h, file) ==
  \/ file.type = "chunk"
  \/ file.type = "asset" /\ EndsWith(file.fileName, <<".", "c", "s", "s">>)

\* Lines 86-92: the predicate of the initialChunks filter on one file. The
\* fileName of a chunk may be missing (includes(undefined) looks for the text
\* "undefined"); that of an asset is dereferenced, see InitialChunksThrow.
IsInitial(h, file) ==
  \/ file.type = "chunk" /\ Includes(h, ToStr(file.fileName))
  \/ /\ file.type = "asset"
     /\ EndsWith(file.fileName, <<".", "c", "s", "s">>)
     /\ Includes(h, file.fileName)

\* Line 89 on an asset without fileName: file.fileName.endsWith throws.
InitialChunksThrow(h, b) ==
  \E i \in 1..Len(b) : b[i].file.type = "asset" /\ b[i].file.fileName = Undefined

\* Lines 86-92: the fileNames of the initial files, in bundle order.
RECURSIVE InitialChunksFrom(_, _, _)
InitialChunksFrom(h, b, i) ==
  IF i > Len(b) THEN <<>>
  ELSE (IF IsInitial(h, b[i].file) THEN <<b[i].file.fileName>> ELSE <<>>)
       \o InitialChunksFrom(h, b, i + 1)

initialChunks(h, b) == InitialChunksFrom(h, b, 1)

\* Lines 107-111: the names the raw /assets/ scan of chunk.code resolves.
StaticNames(code) ==
  LET ms == StaticUrlMatches(ToStr(code), 1)
  IN  [i \in 1..Len(ms) |-> Basename(ms[i])]

\* Lines 136-140: the names the url() scan of a stylesheet resolves.
CssNames(text) ==
  LET ms == UrlMatches(text, 1)
  IN  [i \in 1..Len(ms) |-> Basename(ms[i])]

\* Lines 97-146: the body of initialChunks.forEach for one fileName. The file
\* is looked up by KEY; a chunk contributes its raw /assets/ matches, then its
\* imports; a stylesheet with text source its url() references.
CollectFromInitial(acc, b, re, fileName) ==
  LET at == BundleAt(b, ToStr(fileName))
  IN  IF at = 0 THEN acc
      ELSE LET file == b[at].file
           IN  IF file.type = "chunk"
               THEN CollectAll(CollectStatic(acc, b, re, StaticNames(file.code), {}),
                               b, re, IF file.hasImports THEN file.imports ELSE <<>>)
               ELSE IF /\ file.type = "asset"
                       /\ EndsWith(file.fileName, <<".", "c", "s", "s">>)
                       /\ file.source.kind = "string"
               THEN CollectAll(acc, b, re, CssNames(file.source.text))
               ELSE acc

RECURSIVE CollectFromInitials(_, _, _, _)
CollectFromInitials(acc, b, re, names) ==
  IF names = <<>> THEN acc
  ELSE CollectFromInitials(CollectFromInitial(acc, b, re, Head(names)), b, re, Tail(names))

\* Lines 74-148: usedAssets after the lookup, or the exception it threw, and
\* the lastIndex the tests leave on the extensions RegExp, which was li.
CollectUsedAssets(h, b, re, all, li) ==
  IF all THEN FullScan(Lookup(<<>>, li), b, re, 1)
  ELSE IF InitialChunksThrow(h, b) THEN [Lookup(<<>>, li) EXCEPT !.thrown = TRUE]
  ELSE CollectFromInitials(Lookup(<<>>, li), b, re, initialChunks(h, b))

\* The number of bytes in a kilobyte: asset.source.length / 1024.
KB == 1024

\* Lines 155-156: sizeKB = length / 1024; ok = sizeKB <= maxSizeKB. The division
\* is exact in JavaScript's numbers, so the test is length <= maxSizeKB * 1024.
SizeOk(length, max) == length <= max * KB

\* Lines 152-162: the predicate of the size filter on one collected fileName:
\* keep, drop, or the exception of findBundleAsset.
SizeFilter(b, max, fileName) ==
  LET r == findBundleAsset(b, fileName)
  IN  IF r.kind = "throw" THEN "throw"
      ELSE IF r.kind = "found" /\ Truthy(b[r.at].file.source)
           THEN (IF SizeOk(b[r.at].file.source.length, max) THEN "keep" ELSE "drop")
      ELSE "keep"

\* Lines 151-162: Array.from(usedAssets).filter(...).
RECURSIVE FilterBySize(_, _, _)
FilterBySize(b, max, names) ==
  IF names = <<>> THEN Collected(<<>>)
  ELSE LET d == SizeFilter(b, max, Head(names))
       IN  IF d = "throw" THEN [used |-> <<>>, thrown |-> TRUE]
           ELSE LET rest == FilterBySize(b, max, Tail(names))
                IN  IF rest.thrown \/ d = "drop" THEN rest
                    ELSE [rest EXCEPT !.used = <<Head(names)>> \o @]

\* /\.(woff2?|ttf|otf)$/i
FontExtensions ==
  [ignoreCase |-> TRUE, global |-> FALSE, alts |->
  {<<"w", "o", "f", "f">>,
   <<"w", "o", "f", "f", "2">>,
   <<"t", "t", "f">>,
   <<"o", "t", "f">>}]

\* /\.(png|jpe?g|gif|svg|webp)$/i
ImageExtensions ==
  [ignoreCase |-> TRUE, global |-> FALSE, alts |->
  {<<"p", "n", "g">>,
   <<"j", "p", "g">>,
   <<"j", "p", "e", "g">>,
   <<"g", "i", "f">>,
   <<"s", "v", "g">>,
   <<"w", "e", "b", "p">>}]

\* /\.(mp4|webm)$/i
VideoExtensions ==
  [ignoreCase |-> TRUE, global |-> FALSE, alts |->
  {<<"m", "p", "4">>,
   <<"w", "e", "b", "m">>}]

\* A classification in which the video test does not take part.
AsTypeWithoutVideo(fileName) ==
  LET t0 == "fetch"
      t1 == IF ExtensionsTest(FontExtensions, fileName) THEN "font" ELSE t0
      t2 == IF ExtensionsTest(ImageExtensions, fileName) THEN "image" ELSE t1
  IN  t2

\* Lines 164-167: asType starts as 'fetch' and each test that matches overwrites
\* it, so the last matching test decides.
AsType(fileName) ==
  LET t0 == "fetch"
      t1 == IF ExtensionsTest(FontExtensions, fileName) THEN "font" ELSE t0
      t2 == IF ExtensionsTest(ImageExtensions, fileName) THEN "image" ELSE t1
      t3 == IF ExtensionsTest(VideoExtensions, fileName) THEN "video" ELSE t2
  IN  t3

AsTypeText(t) ==
  CASE t = "font"  -> <<"f", "o", "n", "t">>
    [] t = "image" -> <<"i", "m", "a", "g", "e">>
    [] t = "video" -> <<"v", "i", "d", "e", "o">>
    [] OTHER       -> <<"f", "e", "t", "c", "h">>

\* Line 168: the crossorigin attribute.
Crossorigin(asType) ==
  IF asType = "font" THEN <<" ", "c", "r", "o", "s", "s", "o", "r", "i", "g", "i", "n">> ELSE <<>>

\* Line 169: fileName.startsWith('..') ? fileName : `/${fileName}`
Href(fileName) ==
  IF StartsWith(fileName, <<".", ".">>) THEN fileName ELSE <<"/">> \o fileName

\* Line 169: the link element of one fileName.
PreloadLink(fileName) ==
  <<"<", "l", "i", "n", "k", " ", "r", "e", "l", "=", "\"", "p", "r", "e", "l", "o", "a", "d", "\"", " ", "h", "r", "e", "f", "=", "\"">>
  \o Href(fileName) \o <<"\"", " ", "a", "s", "=", "\"">>
  \o AsTypeText(AsType(fileName)) \o <<"\"">> \o Crossorigin(AsType(fileName)) \o <<">">>

\* Lines 163-171: .map(...).join('\n')
JoinLinks(names) == Join([i \in 1..Len(names) |-> PreloadLink(names[i])], <<"\n">>)

HeadClose == <<"<", "/", "h", "e", "a", "d", ">">>

\* The character U+0060 (grave accent), which a TLA+ string literal cannot hold.
GraveAccent == "<grave>"

\* GetSubstitution of String.prototype.replace for a string pattern (no capture
\* groups): $$ is a dollar sign, $& the matched text, $ with a grave accent the
\* text before the match, $' the text after it; any other $ stands for itself.
RECURSIVE GetSubstitution(_, _, _, _)
GetSubstitution(repl, matched, before, after) ==
  LET hits == {i \in 1..(Len(repl) - 1) :
                 repl[i] = "$" /\ repl[i + 1] \in {"$", "&", GraveAccent, "'"}}
  IN  IF hits = {} THEN repl
      ELSE LET i == CHOOSE h \in hits : \A g \in hits : h <= g
           IN  SubSeq(repl, 1, i - 1)
               \o (CASE repl[i + 1] = "$" -> <<"$">>
                     [] repl[i + 1] = "&" -> matched
                     [] repl[i + 1] = GraveAccent -> before
                     [] OTHER -> after)
               \o GetSubstitution(Drop(repl, i + 1), matched, before, after)

\* String.prototype.replace(pattern, replacement) with a string pattern: the
\* first occurrence only, the replacement expanded by GetSubstitution.
Replace(s, pattern, repl) ==
  LET i == IndexOf(s, pattern)
  IN  IF i = 0 THEN s
      ELSE LET before == SubSeq(s, 1, i - 1)
               after  == Drop(s, i + Len(pattern) - 1)
           IN  before \o GetSubstitution(repl, pattern, before, after) \o after

\* A hook that answers a missing bundle with no document at all.
ReturnAbsentOnNoBundle(h) == Undefined

\* Line 53: what the hook returns when there is no bundle.
ReturnNoBundle(h) == h

\* Line 55: !html, true of undefined and of the empty string.
NotHtml(h) == h = Undefined \/ h = <<>>

\* Lines 175-183: the return value once preloadLinks is built.
ReturnSpliced(h, links) ==
  IF Trim(links) = <<>> THEN h
  ELSE Replace(h, HeadClose, <<" ", " ">> \o links \o <<"\n">> \o HeadClose)

Returned(v, used, kept, links, li) ==
  [kind |-> "return", value |-> v, usedAssets |-> used, preloaded |-> kept,
   preloadLinks |-> links, lastIndex |-> li]

Thrown(li) == [kind |-> "throw", value |-> Undefined, usedAssets |-> <<>>,
               preloaded |-> <<>>, preloadLinks |-> <<>>, lastIndex |-> li]

\* Lines 50-184: one call of the hook on a plugin built with options
\* {maxSizeKB: max, extensions: re, preloadAll: all}: what it returns or that it
\* throws, with the usedAssets, the fileNames past the size filter and the
\* preloadLinks text it built on the way, and the lastIndex it leaves on the
\* extensions RegExp, which was li when the call began.
Transform(h, c, max, re, all, li) ==
  IF NoBundle(c) THEN Returned(ReturnNoBundle(h), <<>>, <<>>, <<>>, li)
  ELSE IF NotHtml(h) THEN Returned(Undefined, <<>>, <<>>, <<>>, li)
  ELSE LET col == CollectUsedAssets(h, c.bundle, re, all, li)
       IN  IF col.thrown THEN Thrown(col.lastIndex)
           ELSE LET kept == FilterBySize(c.bundle, max, col.used)
                IN  IF kept.thrown THEN Thrown(col.lastIndex)
                    ELSE LET links == JoinLinks(kept.used)
                         IN  Returned(ReturnSpliced(h, links), col.used, kept.used, links,
                                      col.lastIndex)

(***************************************************************************)
(* The options, documents and build graphs the hook is called with         *)
(***************************************************************************)

\* Line 30: the default of the extensions option,
\* /\.(woff2?|ttf|otf|midi?|ogg|mp3|png|jpe?g|gif|svg|webp|mp4|webm)$/i
DefaultExtensions ==
  [ignoreCase |-> TRUE, global |-> FALSE, alts |->
  {<<"w", "o", "f", "f">>,
   <<"w", "o", "f", "f", "2">>,
   <<"t", "t", "f">>,
   <<"o", "t", "f">>,
   <<"m", "i", "d">>,
   <<"m", "i", "d", "i">>,
   <<"o", "g", "g">>,
   <<"m", "p", "3">>,
   <<"p", "n", "g">>,
   <<"j", "p", "g">>,
   <<"j", "p", "e", "g">>,
   <<"g", "i", "f">>,
   <<"s", "v", "g">>,
   <<"w", "e", "b", "p">>,
   <<"m", "p", "4">>,
   <<"w", "e", "b", "m">>}]

\* /\.(png|woff2)$/i, the extensions option of the test suite.
PngWoff2Extensions ==
  [ignoreCase |-> TRUE, global |-> FALSE, alts |->
  {<<"p", "n", "g">>,
   <<"w", "o", "f", "f", "2">>}]

\* /\.glb$/g: an extensions option with the g flag, whose test() reads and
\* writes lastIndex.
GlbGlobalExtensions ==
  [ignoreCase |-> FALSE, global |-> TRUE, alts |-> {<<"g", "l", "b">>}]

\* Line 29: the default of the maxSizeKB option.
DefaultMaxSizeKB == 200

\* maxSizeKB: 1 in the test suite.
TestMaxSizeKB == 1

MainJs == <<"m", ".", "j", "s">>
OtherJs == <<"o", ".", "j", "s">>
StylesCss == <<"s", ".", "c", "s", "s">>
APng == <<"a", ".", "p", "n", "g">>
XaPng == <<"x", "a", ".", "p", "n", "g">>
BGlb == <<"b", ".", "g", "l", "b">>
KPng == <<"k", ".", "p", "n", "g">>
AssetsAPng == <<"a", "s", "s", "e", "t", "s", "/", "a", ".", "p", "n", "g">>

\* <head><script src="m.js"></script></head>
DocMain == <<"<", "h", "e", "a", "d", ">", "<", "s", "c", "r", "i", "p", "t", " ", "s", "r", "c", "=", "\"", "m", ".", "j", "s", "\"", ">", "<", "/", "s", "c", "r", "i", "p", "t", ">", "<", "/", "h", "e", "a", "d", ">">>

\* <head><script src="m.js"></script><link href="s.css"></head></head>: both
\* initial files, and a second head-closing marker.
DocBoth ==
  <<"<", "h", "e", "a", "d", ">", "<", "s", "c", "r", "i", "p", "t", " ", "s", "r", "c", "=", "\"", "m", ".", "j", "s", "\"", ">", "<", "/", "s", "c", "r", "i", "p", "t", ">", "<", "l", "i", "n", "k", " ", "h", "r", "e", "f", "=", "\"", "s", ".", "c", "s", "s", "\"", ">", "<", "/", "h", "e", "a", "d", ">", "<", "/", "h", "e", "a", "d", ">">>

\* <script src="m.js"></script>: no head-closing marker.
DocNoHead == <<"<", "s", "c", "r", "i", "p", "t", " ", "s", "r", "c", "=", "\"", "m", ".", "j", "s", "\"", ">", "<", "/", "s", "c", "r", "i", "p", "t", ">">>

Htmls == {Undefined, <<>>, DocMain, DocBoth, DocNoHead}

\* The initial files a bundle may start with: chunks and a stylesheet.
MainWithImports == Entry(MainJs, Chunk(MainJs, Undefined, TRUE, <<APng, BGlb>>))

\* A chunk with code naming /assets/ paths and a url() outside /assets/,
\* without import list: x="/assets/xa.png";y='/assets/b.glb';z="url(a.png)"
MainWithCode ==
  Entry(MainJs, Chunk(MainJs, <<"x", "=", "\"", "/", "a", "s", "s", "e", "t", "s", "/", "x", "a", ".", "p", "n", "g", "\"", ";", "y", "=", "'", "/", "a", "s", "s", "e", "t", "s", "/", "b", ".", "g", "l", "b", "'", ";", "z", "=", "\"", "u", "r", "l", "(", "a", ".", "p", "n", "g", ")", "\"">>,
                      FALSE, <<>>))

\* A chunk that imports nothing.
MainWithoutImports == Entry(MainJs, Chunk(MainJs, Undefined, TRUE, <<>>))

\* A chunk the documents do not name.
OtherWithImports == Entry(OtherJs, Chunk(OtherJs, Undefined, TRUE, <<APng>>))

\* A stylesheet: url("../a.png") url(xa.png) url('b.glb')
Stylesheet ==
  Entry(StylesCss, Asset(StylesCss,
    StringSource(<<"u", "r", "l", "(", "\"", ".", ".", "/", "a", ".", "p", "n", "g", "\"", ")", " ", "u", "r", "l", "(", "x", "a", ".", "p", "n", "g", ")", " ", "u", "r", "l", "(", "'", "b", ".", "g", "l", "b", "'", ")">>)))

Heads ==
  { <<>>, <<MainWithImports>>, <<MainWithCode>>, <<MainWithoutImports>>,
    <<OtherWithImports>>, <<Stylesheet>>, <<Stylesheet, MainWithImports>> }

\* The assets a producer may emit, as bundle entries.
Assets ==
  { Entry(APng, Asset(APng, BufferSource(TestMaxSizeKB * KB))),
    Entry(APng, Asset(APng, BufferSource(TestMaxSizeKB * KB + 1))),
    \* an asset without source
    Entry(APng, Asset(APng, NoSource)),
    Entry(XaPng, Asset(XaPng, BufferSource(500))),
    Entry(BGlb, Asset(BGlb, BufferSource(500))),
    \* a bundle key that is not the fileName
    Entry(KPng, Asset(AssetsAPng, BufferSource(1500))),
    \* an asset without fileName
    Entry(KPng, Asset(Undefined, BufferSource(500))) }

\* The most assets of a generated bundle.
MaxAssets == 2

\* Object keys are unique.
DistinctKeys(b) == \A i, j \in 1..Len(b) : b[i].key = b[j].key => i = j

RECURSIVE SeqsUpTo(_, _)
SeqsUpTo(S, n) ==
  IF n = 0 THEN {<<>>}
  ELSE LET shorter == SeqsUpTo(S, n - 1)
       IN  shorter \cup {Append(q, x) : q \in {r \in shorter : Len(r) = n - 1}, x \in S}

\* The paths of the assets of ImportBundles: every suffix the link rendering
\* tells apart, upper case, directories, a leading "..", and the characters
\* String.prototype.replace reads in a replacement.
ImportedPaths ==
  { <<"a", ".", "w", "o", "f", "f">>,
    <<"f", ".", "w", "o", "f", "f", "2">>,
    <<"a", ".", "t", "t", "f">>,
    <<"a", ".", "o", "t", "f">>,
    <<"a", ".", "p", "n", "g">>,
    <<"a", ".", "j", "p", "g">>,
    <<"a", ".", "j", "p", "e", "g">>,
    <<"a", ".", "g", "i", "f">>,
    <<"a", ".", "s", "v", "g">>,
    <<"a", ".", "w", "e", "b", "p">>,
    <<"a", ".", "m", "p", "4">>,
    <<"a", ".", "w", "e", "b", "m">>,
    <<"a", ".", "m", "p", "3">>,
    <<"b", ".", "g", "l", "b">>,
    <<"A", ".", "P", "N", "G">>,
    <<".", ".", "/", "a", ".", "p", "n", "g">>,
    <<".", ".", "a", ".", "p", "n", "g">>,
    <<"d", "/", "a", ".", "p", "n", "g">>,
    <<"$", "&", ".", "p", "n", "g">>,
    <<"$", "'", ".", "p", "n", "g">>,
    <<"$", "$", ".", "p", "n", "g">>,
    <<"a", ".", "p", "n", "g", ".", "g", "z">>,
    <<"p", "n", "g">> }

ImportedSizes ==
  {500, DefaultMaxSizeKB * KB, DefaultMaxSizeKB * KB + 1}

\* A chunk the document names that imports one asset of the bundle.
ImportBundle(path, n) ==
  << Entry(MainJs, Chunk(MainJs, Undefined, TRUE, <<path>>)),
     Entry(path, Asset(path, BufferSource(n))) >>

ImportBundles == {ImportBundle(path, 500) : path \in ImportedPaths}
                 \cup {ImportBundle(APng, n) : n \in ImportedSizes}

\* A stylesheet whose references carry a query string and a fragment:
\* url("a.png?v=1") url(xa.png#x)
QueryStylesheet ==
  Entry(StylesCss, Asset(StylesCss,
    StringSource(<<"u", "r", "l", "(", "\"", "a", ".", "p", "n", "g", "?", "v", "=", "1", "\"", ")", " ", "u", "r", "l", "(", "x", "a", ".", "p", "n", "g", "#", "x", ")">>)))

\* The stylesheet with one of the assets it refers to.
QueryBundles ==
  { <<QueryStylesheet, Entry(APng, Asset(APng, BufferSource(500)))>>,
    <<QueryStylesheet, Entry(XaPng, Asset(XaPng, BufferSource(500)))>> }

\* A chunk the document names, and the asset its code refers to, whose
\* source is the empty string.
EmptySourceBundles ==
  { <<MainWithCode, Entry(XaPng, Asset(XaPng, StringSource(<<>>)))>> }

Bundles ==
  {h \o t : h \in Heads, t \in {b \in SeqsUpTo(Assets, MaxAssets) : DistinctKeys(b)}}
  \cup ImportBundles \cup QueryBundles \cup EmptySourceBundles

NoCtx == [defined |-> FALSE, hasBundle |-> FALSE, bundle |-> <<>>]

CtxWithoutBundle == [defined |-> TRUE, hasBundle |-> FALSE, bundle |-> <<>>]

CtxOf(b) == [defined |-> TRUE, hasBundle |-> TRUE, bundle |-> b]

Ctxs == {NoCtx, CtxWithoutBundle} \cup {CtxOf(b) : b \in Bundles}

(***************************************************************************)
(* The state machine: autoPreload(options) builds the plugin, whose hook   *)
(* the build then calls once per document. Between two calls the plugin    *)
(* holds its options only.                                                 *)
(***************************************************************************)

NoResult == [kind |-> "none", value |-> Undefined]

\* Lines 28-33: the plugin as autoPreload(options) leaves it.
Init ==
  /\ maxSizeKB \in {DefaultMaxSizeKB, TestMaxSizeKB}
  /\ extensions \in {DefaultExtensions, PngWoff2Extensions, GlbGlobalExtensions}
  /\ preloadAll \in BOOLEAN
  /\ extensions.global => (maxSizeKB = DefaultMaxSizeKB /\ ~preloadAll)
  /\ lastIndex = 0
  /\ html = Undefined
  /\ ctx = NoCtx
  /\ result = NoResult
  /\ usedAssets = <<>>
  /\ preloaded = <<>>
  /\ preloadLinks = <<>>

\* Lines 50-184: the build calls transformIndexHtml(h, c), which runs to its
\* return or to an exception.
transformIndexHtml(h, c) ==
  /\ result.kind = "none"
  /\ \E out \in {Transform(h, c, maxSizeKB, extensions, preloadAll, lastIndex)} :
       /\ result' = [kind |-> out.kind, value |-> out.value]
       /\ lastIndex' = out.lastIndex
       /\ usedAssets' = out.usedAssets
       /\ preloaded' = out.preloaded
       /\ preloadLinks' = out.preloadLinks
  /\ html' = h
  /\ ctx' = c
  /\ UNCHANGED <<maxSizeKB, extensions, preloadAll>>

\* The caller has taken the result: the call's frame is gone, the plugin is
\* ready for the next document.
Finish ==
  /\ result.kind # "none"
  /\ html' = Undefined
  /\ ctx' = NoCtx
  /\ result' = NoResult
  /\ usedAssets' = <<>>
  /\ preloaded' = <<>>
  /\ preloadLinks' = <<>>
  /\ UNCHANGED <<maxSizeKB, extensions, preloadAll, lastIndex>>

Next ==
  \/ \E h \in Htmls, c \in Ctxs : transformIndexHtml(h, c)
  \/ Finish

Spec == Init /\ [][Next]_vars

(***************************************************************************)
(* Properties                                                              *)
(***************************************************************************)

\* The call has returned (it did not throw).
HasReturned == result.kind = "return"

\* x is an element of the sequence q.
InSeq(x, q) == \E i \in 1..Len(q) : q[i] = x

\* C1: no-op paths. When the document text is absent the hook returns absent,
\* whatever the context; when the document text is present and the context or
\* its bundle is absent, the hook returns the document text itself.
NoOpPaths ==
  result.kind # "none" =>
    /\ html = Undefined => (HasReturned /\ result.value = Undefined)
    /\ (html # Undefined /\ NoBundle(ctx)) => (HasReturned /\ result.value = html)

\* C1 witness: a document was passed with a context that has no bundle, and
\* came back unchanged.
NoOpPathsWitness ==
  /\ HasReturned
  /\ html = DocMain
  /\ ctx = CtxWithoutBundle
  /\ result.value = DocMain

\* C2: whenever the document text is present (any string, the empty one
\* included) and the context carries a bundle, what the hook returns is a
\* document text, never absent.
ReturnsDocumentText ==
  (HasReturned /\ html # Undefined /\ ~NoBundle(ctx)) => result.value # Undefined

\* C3: no false injection. If no asset survives discovery and the extension
\* and size filters, the hook returns exactly the input document.
NoFalseInjection ==
  (HasReturned /\ html # Undefined /\ ~NoBundle(ctx) /\ preloaded = <<>>)
    => result.value = html

\* C3 on the documents that are not empty, where line 55 does not return.
NoFalseInjectionNonEmpty ==
  (HasReturned /\ ~NotHtml(html) /\ ~NoBundle(ctx) /\ preloaded = <<>>)
    => result.value = html

\* The asset records a collected path names: with preloadAll the entry under
\* that key, otherwise the assets with that fileName.
OwnRecords(path) ==
  {i \in 1..Len(ctx.bundle) :
     /\ ctx.bundle[i].file.type = "asset"
     /\ IF preloadAll THEN ctx.bundle[i].key = path
        ELSE ctx.bundle[i].file.fileName = path}

\* The length of the payload of the asset at position i of the bundle.
PayloadLength(i) == ctx.bundle[i].file.source.length

HasPayload(i) == Truthy(ctx.bundle[i].file.source)

\* The paths of the bundle's assets: their keys and their fileNames.
AssetPaths ==
  UNION {{ctx.bundle[i].key, ctx.bundle[i].file.fileName} \ {Undefined} :
           i \in {j \in 1..Len(ctx.bundle) : ctx.bundle[j].file.type = "asset"}}

\* The output holds the preload link of the path.
Emitted(path) ==
  HasReturned /\ result.value # Undefined /\ Includes(result.value, PreloadLink(path))

\* C4: size boundary. Where the document has a head-closing marker, a collected
\* asset whose payload is at most maxSizeKB*1024 bytes long (exactly that many
\* included) is preloaded, and one whose payload is longer (by one byte or
\* more) is not.
SizeBoundary ==
  (HasReturned /\ Includes(html, HeadClose)) =>
    \A k \in 1..Len(usedAssets) : \A i \in OwnRecords(usedAssets[k]) :
      HasPayload(i) =>
        (InSeq(usedAssets[k], preloaded) <=> PayloadLength(i) <= maxSizeKB * KB)

\* C4 with preloadAll off, where a collected path is the fileName of the asset
\* findBundleAsset found first.
SizeBoundaryOfInitialFiles == preloadAll \/ SizeBoundary

\* C5: size ceiling. In every mode, every asset a preload link is emitted for
\* has its own payload at most maxSizeKB*1024 bytes long.
SizeCeiling ==
  (HasReturned /\ ~NoBundle(ctx)) =>
    \A path \in AssetPaths : \A i \in OwnRecords(path) :
      (Emitted(path) /\ HasPayload(i)) => PayloadLength(i) <= maxSizeKB * KB

\* C5 with preloadAll off.
SizeCeilingOfInitialFiles == preloadAll \/ SizeCeiling

\* C6: a collected path that resolves to no asset record, or to one without
\* payload (source absent or empty), is dropped: no link is emitted for it.
DropsUnverifiable ==
  HasReturned =>
    \A k \in 1..Len(usedAssets) :
      LET r == findBundleAsset(ctx.bundle, usedAssets[k])
      IN  (r.kind # "found" \/ ~Truthy(ctx.bundle[r.at].file.source))
            => ~Emitted(usedAssets[k])

\* C7: extension filter. By whatever channel an asset was discovered, a preload
\* link is emitted for it only if its path matches the extensions option: every
\* path past the filters matches, and the link of a path of the bundle that
\* does not match is not in the output.
ExtensionFilter ==
  (HasReturned /\ ~NoBundle(ctx)) =>
    /\ \A k \in 1..Len(preloaded) : ExtensionsTest(extensions, preloaded[k])
    /\ \A path \in AssetPaths :
         Emitted(path) => ExtensionsTest(extensions, path)

\* C7 witness: a chunk of the document imports a.png and b.glb, both in the
\* bundle; the output links a.png and does not name b.glb.
ExtensionFilterWitness ==
  /\ HasReturned
  /\ ~preloadAll
  /\ html = DocMain
  /\ ~NoBundle(ctx)
  /\ Len(ctx.bundle) = 3
  /\ ctx.bundle[1] = MainWithImports
  /\ ctx.bundle[3].key = BGlb
  /\ preloaded = <<APng>>
  /\ Includes(result.value, PreloadLink(APng))
  /\ ~Includes(result.value, BGlb)

\* The text after the last "." of a path, in lower case; the path has no
\* suffix when it has no ".".
Suffix(path) ==
  LET dots == {i \in 1..Len(path) : path[i] = "."}
  IN  IF dots = {} THEN Undefined
      ELSE ToLower(Drop(path, CHOOSE i \in dots : \A j \in dots : j <= i))

\* The resource type of a suffix by the table of the claim, the first match
\* deciding.
TypeOfSuffix(sfx) ==
  IF sfx \in {<<"w", "o", "f", "f">>, <<"w", "o", "f", "f", "2">>, <<"t", "t", "f">>, <<"o", "t", "f">>}
    THEN "font"
  ELSE IF sfx \in {<<"p", "n", "g">>, <<"j", "p", "g">>, <<"j", "p", "e", "g">>, <<"g", "i", "f">>, <<"s", "v", "g">>, <<"w", "e", "b", "p">>}
    THEN "image"
  ELSE IF sfx \in {<<"m", "p", "4">>, <<"w", "e", "b", "m">>}
    THEN "video"
  ELSE "fetch"

\* The link element of a path by the claim: href is "/" + path unless the path
\* begins with "..", as is the type of the suffix, crossorigin iff font.
LinkOfPath(path) ==
  LET t == TypeOfSuffix(Suffix(path))
  IN  <<"<", "l", "i", "n", "k", " ", "r", "e", "l", "=", "\"", "p", "r", "e", "l", "o", "a", "d", "\"", " ", "h", "r", "e", "f", "=", "\"">>
      \o (IF SubSeq(path, 1, 2) = <<".", ".">> THEN path ELSE <<"/">> \o path)
      \o <<"\"", " ", "a", "s", "=", "\"">>
      \o AsTypeText(t) \o <<"\"">>
      \o (IF t = "font" THEN <<" ", "c", "r", "o", "s", "s", "o", "r", "i", "g", "i", "n">> ELSE <<>>)
      \o <<">">>

\* C8: the rendering of one directive is a function of the asset path alone,
\* by the table of suffixes (font with crossorigin, image, video, else fetch)
\* and the href rule; the code's last-match-wins tests give what the table's
\* first match gives.
RenderingByTable ==
  HasReturned =>
    preloadLinks = Join([k \in 1..Len(preloaded) |-> LinkOfPath(preloaded[k])], <<"\n">>)

\* C8 witness: the chunk of the document imports the font f.woff2, and the
\* output holds its link with the crossorigin attribute.
RenderingByTableWitness ==
  /\ HasReturned
  /\ preloaded = <<<<"f", ".", "w", "o", "f", "f", "2">>>>
  /\ Includes(result.value, <<"h", "r", "e", "f", "=", "\"", "/", "f", ".", "w", "o", "f", "f", "2", "\"", " ", "a", "s", "=", "\"", "f", "o", "n", "t", "\"", " ", "c", "r", "o", "s", "s", "o", "r", "i", "g", "i", "n", ">">>)

\* C9: splice frame. When a directive survives, the output is the input with
\* the block of link elements (set off by white space) inserted immediately
\* before the head-closing marker and every other character unchanged; without
\* a head-closing marker the output is the input.
SpliceFrame ==
  (HasReturned /\ preloaded # <<>>) =>
    LET i == IndexOf(html, HeadClose)
        n == Len(result.value) - Len(html)
    IN  IF i = 0 THEN result.value = html
        ELSE /\ n >= 0
             /\ SubSeq(result.value, 1, i - 1) = SubSeq(html, 1, i - 1)
             /\ Drop(result.value, i - 1 + n) = Drop(html, i - 1)
             /\ Trim(SubSeq(result.value, i, i - 1 + n)) = preloadLinks

\* C9 on the calls whose surviving paths hold no "$".
SpliceFrameWithoutDollar ==
  (\A k \in 1..Len(preloaded) : ~InSeq("$", preloaded[k])) => SpliceFrame

\* C10: graceful degradation. Whatever the document and the build graph, the
\* hook ends with a return value and never throws.
NeverThrows == result.kind # "throw"

\* The names a file of the bundle refers to: a chunk's /assets/ matches and
\* its import list, the url() references of a stylesheet with text source.
ReferencesOf(file) ==
  IF file.type = "chunk"
    THEN {StaticNames(file.code)[k] : k \in 1..Len(StaticNames(file.code))}
         \cup (IF file.hasImports THEN {file.imports[k] : k \in 1..Len(file.imports)} ELSE {})
  ELSE IF file.fileName # Undefined /\ EndsWith(file.fileName, <<".", "c", "s", "s">>)
          /\ file.source.kind = "string"
    THEN {CssNames(file.source.text)[k] : k \in 1..Len(CssNames(file.source.text))}
  ELSE {}

\* The file at position i of the bundle is named by the document: a chunk or a
\* stylesheet whose path occurs in the document text.
NamedByDocument(i) ==
  /\ ctx.bundle[i].file.fileName # Undefined
  /\ Includes(html, ctx.bundle[i].file.fileName)
  /\ \/ ctx.bundle[i].file.type = "chunk"
     \/ EndsWith(ctx.bundle[i].file.fileName, <<".", "c", "s", "s">>)

AssetsAt == {i \in 1..Len(ctx.bundle) :
               ctx.bundle[i].file.type = "asset" /\ ctx.bundle[i].file.fileName # Undefined}

Least(S) == CHOOSE i \in S : \A j \in S : i <= j

\* The asset a reference tail names: the asset whose path is the tail if there
\* is one, else the first whose path ends with the tail; 0 when there is none.
ResolvedByTail(tail) ==
  LET exact  == {i \in AssetsAt : ctx.bundle[i].file.fileName = tail}
      suffix == {i \in AssetsAt : EndsWith(ctx.bundle[i].file.fileName, tail)}
  IN  IF exact # {} THEN Least(exact)
      ELSE IF suffix # {} THEN Least(suffix)
      ELSE 0

\* The asset at position i is eligible: its path matches the extensions and
\* its payload is at most maxSizeKB*1024 bytes long.
Eligible(i) ==
  /\ i # 0
  /\ ExtensionsTest(extensions, ctx.bundle[i].file.fileName)
  /\ HasPayload(i)
  /\ PayloadLength(i) <= maxSizeKB * KB

\* The chunks the document names that carry an import list.
NamedChunksWithImports ==
  {i \in 1..Len(ctx.bundle) :
     NamedByDocument(i) /\ ctx.bundle[i].file.type = "chunk" /\ ctx.bundle[i].file.hasImports}

\* C12: declared imports channel. For every chunk whose path occurs in the
\* document, every path of its import list that resolves to an eligible asset
\* of the bundle yields the preload link of that asset in the output (the
\* document having a head-closing marker).
DeclaredImportsPreloaded ==
  (result.kind # "none" /\ ~preloadAll /\ ~NoBundle(ctx) /\ html # Undefined
     /\ Includes(html, HeadClose)) =>
    \A i \in NamedChunksWithImports :
      \A k \in 1..Len(ctx.bundle[i].file.imports) :
        LET j == ResolvedByTail(StripDotSlash(ctx.bundle[i].file.imports[k]))
        IN  Eligible(j) => Emitted(ctx.bundle[j].file.fileName)

\* C12 where the hook returns, the asset is the one findBundleAsset finds and
\* the extensions pattern keeps no lastIndex: the import is past the size filter.
DeclaredImportsCollected ==
  (HasReturned /\ ~preloadAll /\ ~NoBundle(ctx) /\ ~NotHtml(html) /\ ~extensions.global) =>
    \A i \in NamedChunksWithImports :
      \A k \in 1..Len(ctx.bundle[i].file.imports) :
        LET r == findBundleAsset(ctx.bundle, ctx.bundle[i].file.imports[k])
        IN  (r.kind = "found" /\ Eligible(r.at))
              => InSeq(ctx.bundle[r.at].file.fileName, preloaded)

\* A url() path without its leading "/", "./" and "../" segments.
RECURSIVE WithoutLeadingSegments(_)
WithoutLeadingSegments(path) ==
  IF StartsWith(path, <<".", ".", "/">>) THEN WithoutLeadingSegments(Drop(path, 3))
  ELSE IF StartsWith(path, <<".", "/">>) THEN WithoutLeadingSegments(Drop(path, 2))
  ELSE IF StartsWith(path, <<"/">>) THEN WithoutLeadingSegments(Drop(path, 1))
  ELSE path

\* The stylesheets the document names whose payload is text.
NamedStylesheets ==
  {i \in 1..Len(ctx.bundle) :
     /\ NamedByDocument(i)
     /\ ctx.bundle[i].file.type = "asset"
     /\ ctx.bundle[i].file.source.kind = "string"}

\* The paths of the url() occurrences of the stylesheet at position i.
UrlsOf(i) ==
  LET ms == UrlMatches(ctx.bundle[i].file.source.text, 1)
  IN  {ms[k] : k \in 1..Len(ms)}

\* C13: stylesheet url() channel. For every stylesheet the document names,
\* every url() occurrence (quoted or bare) whose path, its leading "/", "./"
\* and "../" segments removed, names an eligible asset yields the preload link
\* of that asset in the output (the document having a head-closing marker).
StylesheetUrlsPreloaded ==
  (result.kind # "none" /\ ~preloadAll /\ ~NoBundle(ctx) /\ html # Undefined
     /\ Includes(html, HeadClose)) =>
    \A i \in NamedStylesheets : \A u \in UrlsOf(i) :
      LET j == ResolvedByTail(WithoutLeadingSegments(u))
      IN  Eligible(j) => Emitted(ctx.bundle[j].file.fileName)

\* C13 where the hook returns, the asset is the one findBundleAsset finds for
\* the last segment of the path and the extensions pattern keeps no lastIndex:
\* the reference is past the size filter.
StylesheetUrlsCollected ==
  (HasReturned /\ ~preloadAll /\ ~NoBundle(ctx) /\ ~NotHtml(html) /\ ~extensions.global) =>
    \A i \in NamedStylesheets : \A u \in UrlsOf(i) :
      LET r == findBundleAsset(ctx.bundle, Basename(u))
      IN  (r.kind = "found" /\ Eligible(r.at))
            => InSeq(ctx.bundle[r.at].file.fileName, preloaded)

\* The chunks the document names.
NamedChunks ==
  {i \in 1..Len(ctx.bundle) : NamedByDocument(i) /\ ctx.bundle[i].file.type = "chunk"}

\* The paths of the url() occurrences in the source text of the chunk at i.
CodeUrlsOf(i) ==
  LET ms == UrlMatches(ToStr(ctx.bundle[i].file.code), 1)
  IN  {ms[k] : k \in 1..Len(ms)}

\* C14: chunk-text url() channel. For every chunk the document names, every
\* url() occurrence in its source text whose path names an eligible asset
\* yields the preload link of that asset, whatever directory the path names.
CodeUrlsPreloaded ==
  (result.kind # "none" /\ ~preloadAll /\ ~NoBundle(ctx) /\ html # Undefined
     /\ Includes(html, HeadClose)) =>
    \A i \in NamedChunks : \A u \in CodeUrlsOf(i) :
      LET j == ResolvedByTail(WithoutLeadingSegments(u))
      IN  Eligible(j) => Emitted(ctx.bundle[j].file.fileName)

\* What the chunk text does contribute, the extensions pattern keeping no
\* lastIndex: every /assets/ match of the source text whose last segment
\* findBundleAsset resolves to an eligible asset is past the size filter.
CodeAssetsPathsCollected ==
  (HasReturned /\ ~preloadAll /\ ~NoBundle(ctx) /\ ~NotHtml(html) /\ ~extensions.global) =>
    \A i \in NamedChunks :
      \A k \in 1..Len(StaticNames(ctx.bundle[i].file.code)) :
        LET r == findBundleAsset(ctx.bundle, StaticNames(ctx.bundle[i].file.code)[k])
        IN  (r.kind = "found" /\ Eligible(r.at))
              => InSeq(ctx.bundle[r.at].file.fileName, preloaded)

\* The elements of a sequence.
Range(q) == {q[k] : k \in 1..Len(q)}

\* C15: with preloadAll the set of preloaded assets is exactly the assets of
\* the bundle whose path matches the extensions and that pass the size filter,
\* whatever files the document names.
FullScanPreloadsEligible ==
  (HasReturned /\ preloadAll /\ ~NoBundle(ctx) /\ ~NotHtml(html)) =>
    Range(preloaded) = {ctx.bundle[i].file.fileName : i \in {j \in AssetsAt : Eligible(j)}}

\* What the full scan does collect: the keys of the assets of the bundle that
\* match the extensions, whatever the document is.
FullScanCollectsMatchingKeys ==
  (HasReturned /\ preloadAll /\ ~NoBundle(ctx) /\ ~NotHtml(html)) =>
    Range(usedAssets) =
      {ctx.bundle[i].key : i \in {j \in 1..Len(ctx.bundle) :
          ctx.bundle[j].file.type = "asset" /\ ExtensionsTest(extensions, ctx.bundle[j].key)}}

\* The suffixes of the default extension pattern as documented.
DocumentedSuffixes ==
  {<<"w", "o", "f", "f">>, <<"w", "o", "f", "f", "2">>, <<"t", "t", "f">>, <<"o", "t", "f">>,
   <<"p", "n", "g">>, <<"j", "p", "g">>, <<"j", "p", "e", "g">>, <<"g", "i", "f">>,
   <<"s", "v", "g">>, <<"w", "e", "b", "p">>, <<"m", "p", "4">>, <<"w", "e", "b", "m">>}

\* C16: on a plugin constructed without an extensions option, an asset is
\* eligible iff its path ends, whatever the case, in one of the twelve
\* documented suffixes: every asset of the bundle matches the pattern in use
\* exactly when its suffix is documented, and no other path is preloaded.
DefaultPatternAsDocumented ==
  (HasReturned /\ extensions = DefaultExtensions /\ ~NoBundle(ctx)) =>
    /\ \A i \in AssetsAt :
         ExtensionsTest(extensions, ctx.bundle[i].file.fileName)
           <=> Suffix(ctx.bundle[i].file.fileName) \in DocumentedSuffixes
    /\ \A k \in 1..Len(preloaded) : Suffix(preloaded[k]) \in DocumentedSuffixes

\* C17: reference resolution order. Whenever the bundle holds an asset whose
\* path equals the tail of a reference of a file the document names, the
\* reference resolves to that asset, whatever the order of the bundle and the
\* other assets whose paths end with the tail.
ExactMatchFirst ==
  (result.kind = "return" /\ ~preloadAll /\ ~NoBundle(ctx) /\ ~NotHtml(html)) =>
    \A i \in 1..Len(ctx.bundle) :
      NamedByDocument(i) =>
        \A n \in ReferencesOf(ctx.bundle[i].file) :
          LET tail == ToStr(StripDotSlash(n))
              r    == findBundleAsset(ctx.bundle, n)
          IN  (\E j \in AssetsAt : ctx.bundle[j].file.fileName = tail)
                => (r.kind = "found" /\ ctx.bundle[r.at].file.fileName = tail)

\* A url() path up to its query string or fragment.
WithoutQuery(path) ==
  LET marks == {k \in 1..Len(path) : path[k] \in {"?", "#"}}
  IN  IF marks = {} THEN path ELSE SubSeq(path, 1, Least(marks) - 1)

\* C18: url() normalisation. The query string and the fragment of a url() of
\* a stylesheet the document names are stripped before resolution: when the
\* path without them resolves to an eligible asset, that asset is preloaded,
\* as it is for the same url() written without query string or fragment.
QueryAndFragmentStripped ==
  (HasReturned /\ ~preloadAll /\ ~NoBundle(ctx) /\ ~NotHtml(html)) =>
    \A i \in NamedStylesheets : \A u \in UrlsOf(i) :
      LET r == findBundleAsset(ctx.bundle, Basename(WithoutQuery(u)))
      IN  (r.kind = "found" /\ Eligible(r.at))
            => InSeq(ctx.bundle[r.at].file.fileName, preloaded)

\* What a plugin just constructed with the same options returns for the
\* document and the bundle of the call.
FirstCall == Transform(html, ctx, maxSizeKB, extensions, preloadAll, 0)

\* C19: independence of invocations. The outcome of a call is determined by
\* the document, the bundle and the options alone: after any sequence of other
\* calls it is what the first call of a new plugin returns, and the call
\* leaves the extensions pattern object as the options supplied it.
IndependentInvocations ==
  result.kind # "none" =>
    /\ result.kind = FirstCall.kind
    /\ result.value = FirstCall.value
    /\ lastIndex = 0

\* C19 for the extensions patterns without the g flag, whose test() keeps no
\* state.
IndependentInvocationsWithoutFlag == extensions.global \/ IndependentInvocations

====
